---- MODULE Spec2Model ----
(***************************************************************************)
(* Model of src/gpu/compute.rs: the Compute kernel object (descriptor      *)
(* pool, descriptor sets, layout, pipeline, shader), its five factory      *)
(* functions, reset() and the accessors.  The gfx-hal descriptor pool the  *)
(* kernel drives is modelled as a bounded allocator of set handles.        *)
(***************************************************************************)
EXTENDS Integers, Sequences, FiniteSets, TLC

\* ------------------------------------------------------------------ bounds
MaxDescSets == 2
TraceLen == 3

\* handles the driver can hand out; one more than a kernel ever holds
Handles == 1..(MaxDescSets + 1)
\* arguments tried for max_desc_sets and for desc_set(idx)
DescSetCounts == 0..MaxDescSets
Indices == 0..(MaxDescSets + 1)

\* --------------------------------------------------- gfx_hal::pso values
COMPUTE == "COMPUTE"
READ_ONLY == <<"Storage", TRUE>>
READ_WRITE == <<"Storage", FALSE>>
STRUCTURED == <<"Structured", FALSE>>

Buffer(format, ty) == <<"Buffer", format, ty>>

Image(ty) == <<"Image", ty>>

DescriptorTypes ==
    { Buffer(STRUCTURED, READ_ONLY), Buffer(STRUCTURED, READ_WRITE), Image(READ_WRITE) }

\* the five precompiled shader binaries of spirv::compute
CALC_VERTEX_ATTRS_U16_COMP == "calc_vertex_attrs_u16.comp"
CALC_VERTEX_ATTRS_U16_SKIN_COMP == "calc_vertex_attrs_u16_skin.comp"
CALC_VERTEX_ATTRS_U32_COMP == "calc_vertex_attrs_u32.comp"
CALC_VERTEX_ATTRS_U32_SKIN_COMP == "calc_vertex_attrs_u32_skin.comp"
DECODE_RGB_RGBA_COMP == "decode_rgb_rgba.comp"

\* ------------------------------------------------------------- variables
VARIABLES
    kernel,     \* <<>> before/without a kernel, <<k>> for the Compute value k
    status,     \* "none" | "ready" | "panicked"
    next_id,    \* next driver object id
    op,         \* name of the last operation called
    arg,        \* idx argument of the last desc_set call
    ret,        \* <<>> or <<value returned by the last accessor>>
    alloc_err,  \* result of the last operation's descriptor allocation
    alloc_calls,\* number of pool allocation calls the last operation made
    trace       \* the last TraceLen constructions and resets, with the shape each left

vars == <<kernel, status, next_id, op, arg, ret, alloc_err, alloc_calls, trace>>

self == kernel[1]

\* ------------------------------------------------ driver (crate::gpu::driver)
descriptor_range_desc(count, ty) == [ty |-> ty, count |-> count]

descriptor_set_layout_binding(binding, stage_flags, ty) ==
    [binding |-> binding, ty |-> ty, count |-> 1, stage_flags |-> stage_flags]

ShaderModule_new(id, spirv) == [id |-> id, spirv |-> spirv]

entry_point(shader) == [module |-> shader.id, entry |-> "main"]

DescriptorSetLayout_new(id, bindings) == [id |-> id, bindings |-> bindings]

ComputePipeline_new(id, shader, set_layouts, push_consts) ==
    [id |-> id, shader |-> shader, set_layouts |-> set_layouts, push_consts |-> push_consts]

DescriptorPool_new(id, max_sets, desc_ranges) ==
    [id |-> id, max_sets |-> max_sets, ranges |-> desc_ranges,
     live |-> [h \in Handles |-> 0],
     used |-> [t \in DescriptorTypes |-> 0]]

RECURSIVE SumCounts(_, _, _)
\* total count of the entries of seq (range descs or bindings) of type ty, from index i on
SumCounts(seq, ty, i) ==
    IF i > Len(seq) THEN 0
    ELSE (IF seq[i].ty = ty THEN seq[i].count ELSE 0) + SumCounts(seq, ty, i + 1)

RangeCapacity(pool, ty) == SumCounts(pool.ranges, ty, 1)

BindingCount(layout, ty) == SumCounts(layout.bindings, ty, 1)

LiveSets(pool) == {h \in Handles : pool.live[h] # 0}

\* one more set of this layout does not fit what the pool was created with
Exceeds(pool, layout) ==
    \/ Cardinality(LiveSets(pool)) + 1 > pool.max_sets
    \/ \E t \in DescriptorTypes :
          pool.used[t] + BindingCount(layout, t) > RangeCapacity(pool, t)

AllocationErrors(pool, layout) ==
    {"OutOfMemory"} \cup (IF Exceeds(pool, layout) THEN {"OutOfPoolMemory"} ELSE {})

\* DescriptorPool::allocate_set: every outcome the driver can produce.  A
\* request beyond the pool's capacity may fail or may be served.
allocate_set(pool, layout) ==
    { [pool |-> [pool EXCEPT !.live[h] = layout.id,
                             !.used = [t \in DescriptorTypes |->
                                          pool.used[t] + BindingCount(layout, t)]],
       set |-> h, err |-> "Ok"] : h \in Handles \ LiveSets(pool) }
    \cup
    { [pool |-> pool, set |-> 0, err |-> e] : e \in AllocationErrors(pool, layout) }

RECURSIVE AllocateFrom(_, _, _, _, _)
AllocateFrom(pool0, pool, layouts, i, list) ==
    IF i > Len(layouts) THEN { [pool |-> pool, sets |-> list, err |-> "Ok"] }
    ELSE UNION { IF o.err = "Ok"
                 THEN AllocateFrom(pool0, o.pool, layouts, i + 1, Append(list, o.set))
                 ELSE { [pool |-> pool0, sets |-> list, err |-> o.err] }
                 : o \in allocate_set(pool, layouts[i]) }

\* DescriptorPool::allocate: one set per layout, appended to list; all or nothing
allocate(pool, layouts, list) == AllocateFrom(pool, pool, layouts, 1, list)

\* DescriptorPool::reset: every set allocated from the pool is invalidated
pool_reset(pool) ==
    [pool EXCEPT !.live = [h \in Handles |-> 0],
                 !.used = [t \in DescriptorTypes |-> 0]]

\* ------------------------------------------------------------ Compute::new
\* a constructor that allocates one set and stores it at every index
new_one_set(spirv, push_consts, max_desc_sets, desc_ranges, bindings, samplers) ==
    LET shader == ShaderModule_new(next_id, spirv)
        set_layout == DescriptorSetLayout_new(next_id + 1, bindings)
        pipeline == ComputePipeline_new(next_id + 2, entry_point(shader),
                                        <<set_layout.id>>, push_consts)
        desc_pool == DescriptorPool_new(next_id + 3, max_desc_sets, desc_ranges)
        layouts == [i \in 1..(IF max_desc_sets = 0 THEN 0 ELSE 1) |-> set_layout]
    IN  { [err |-> o.err,
           kernel |-> IF o.err = "Ok"
                      THEN << [desc_pool |-> o.pool,
                               desc_sets |-> [i \in 1..max_desc_sets |-> o.sets[1]],
                               max_desc_sets |-> max_desc_sets,
                               pipeline |-> pipeline,
                               set_layout |-> set_layout,
                               samplers |-> samplers,
                               shader |-> shader] >>
                      ELSE <<>>]
          : o \in allocate(desc_pool, layouts, <<>>) }

\* every outcome of the shared constructor: the kernel it returns, or none
\* when unwrap() panics on the pool's allocation error
new(spirv, push_consts, max_desc_sets, desc_ranges, bindings, samplers) ==
    LET shader == ShaderModule_new(next_id, spirv)
        set_layout == DescriptorSetLayout_new(next_id + 1, bindings)
        pipeline == ComputePipeline_new(next_id + 2, entry_point(shader),
                                        <<set_layout.id>>, push_consts)
        desc_pool == DescriptorPool_new(next_id + 3, max_desc_sets, desc_ranges)
        layouts == [i \in 1..max_desc_sets |-> set_layout]
    IN  { [err |-> o.err,
           kernel |-> IF o.err = "Ok"
                      THEN << [desc_pool |-> o.pool,
                               desc_sets |-> o.sets,
                               max_desc_sets |-> max_desc_sets,
                               pipeline |-> pipeline,
                               set_layout |-> set_layout,
                               samplers |-> samplers,
                               shader |-> shader] >>
                      ELSE <<>>]
          : o \in allocate(desc_pool, layouts, <<>>) }

\* ------------------------------------------------------- factory functions
\* a helper that gives the skinned shaders a fifth binding for the bone buffer
calc_vertex_attrs_bones(spirv, max_desc_sets) ==
    LET skin == spirv \in {CALC_VERTEX_ATTRS_U16_SKIN_COMP, CALC_VERTEX_ATTRS_U32_SKIN_COMP}
        ro == IF skin THEN 4 ELSE 3
    IN  new(spirv,
            << <<COMPUTE, 0, 8>> >>,
            max_desc_sets,
            << descriptor_range_desc(ro * max_desc_sets, Buffer(STRUCTURED, READ_ONLY)),
               descriptor_range_desc(max_desc_sets, Buffer(STRUCTURED, READ_WRITE)) >>,
            << descriptor_set_layout_binding(0, COMPUTE, Buffer(STRUCTURED, READ_ONLY)),
               descriptor_set_layout_binding(1, COMPUTE, Buffer(STRUCTURED, READ_ONLY)),
               descriptor_set_layout_binding(2, COMPUTE, Buffer(STRUCTURED, READ_WRITE)),
               descriptor_set_layout_binding(3, COMPUTE, Buffer(STRUCTURED, READ_ONLY)) >>
            \o (IF skin
                THEN << descriptor_set_layout_binding(4, COMPUTE, Buffer(STRUCTURED, READ_ONLY)) >>
                ELSE <<>>),
            <<>>)

calc_vertex_attrs(spirv, max_desc_sets) ==
    new(spirv,
        << <<COMPUTE, 0, 8>> >>,
        max_desc_sets,
        << descriptor_range_desc(3 * max_desc_sets, Buffer(STRUCTURED, READ_ONLY)),
           descriptor_range_desc(max_desc_sets, Buffer(STRUCTURED, READ_WRITE)) >>,
        << descriptor_set_layout_binding(0, COMPUTE, Buffer(STRUCTURED, READ_ONLY)),
           descriptor_set_layout_binding(1, COMPUTE, Buffer(STRUCTURED, READ_ONLY)),
           descriptor_set_layout_binding(2, COMPUTE, Buffer(STRUCTURED, READ_WRITE)),
           descriptor_set_layout_binding(3, COMPUTE, Buffer(STRUCTURED, READ_ONLY)) >>,
        <<>>)

decode_rgb_rgba_new(max_desc_sets) ==
    new(DECODE_RGB_RGBA_COMP,
        << <<COMPUTE, 0, 4>> >>,
        max_desc_sets,
        << descriptor_range_desc(1, Buffer(STRUCTURED, READ_ONLY)),
           descriptor_range_desc(1, Image(READ_WRITE)) >>,
        << descriptor_set_layout_binding(0, COMPUTE, Buffer(STRUCTURED, READ_ONLY)),
           descriptor_set_layout_binding(1, COMPUTE, Image(READ_WRITE)) >>,
        <<>>)

\* --------------------------------------------------------------- history
\* what a caller can observe of a kernel's shape: max_desc_sets() and the
\* number of indices desc_set answers
ShapeOf(k) ==
    IF k = <<>> THEN <<>> ELSE <<k[1].max_desc_sets, Len(k[1].desc_sets)>>

Push(entry) ==
    IF Len(trace) < TraceLen THEN Append(trace, entry) ELSE Append(Tail(trace), entry)

Called(name, a, r, k, st, aerr, acalls) ==
    /\ op' = name
    /\ arg' = a
    /\ ret' = r
    /\ kernel' = k
    /\ status' = st
    /\ alloc_err' = aerr
    /\ alloc_calls' = acalls

\* constructions and resets are logged; the accessors take &self and are not
Logged(name, k, st) ==
    trace' = Push([op |-> name, status |-> st, shape |-> ShapeOf(k)])

\* a factory call: the four driver objects are created, then the sets allocated
Construct(name, outcomes) ==
    /\ status = "none"
    /\ next_id' = next_id + 4
    /\ \E o \in outcomes :
          /\ Called(name, 0, <<>>, o.kernel,
                    IF o.err = "Ok" THEN "ready" ELSE "panicked", o.err, 1)
          /\ Logged(name, o.kernel, IF o.err = "Ok" THEN "ready" ELSE "panicked")

calc_vertex_attrs_u16 ==
    \E n \in DescSetCounts :
        Construct("calc_vertex_attrs_u16", calc_vertex_attrs(CALC_VERTEX_ATTRS_U16_COMP, n))

calc_vertex_attrs_u16_skin ==
    \E n \in DescSetCounts :
        Construct("calc_vertex_attrs_u16_skin",
                  calc_vertex_attrs(CALC_VERTEX_ATTRS_U16_SKIN_COMP, n))

calc_vertex_attrs_u32 ==
    \E n \in DescSetCounts :
        Construct("calc_vertex_attrs_u32", calc_vertex_attrs(CALC_VERTEX_ATTRS_U32_COMP, n))

calc_vertex_attrs_u32_skin ==
    \E n \in DescSetCounts :
        Construct("calc_vertex_attrs_u32_skin",
                  calc_vertex_attrs(CALC_VERTEX_ATTRS_U32_SKIN_COMP, n))

decode_rgb_rgba ==
    \E n \in DescSetCounts :
        Construct("decode_rgb_rgba", decode_rgb_rgba_new(n))

\* ---------------------------------------------------------- Compute::reset
RECURSIVE reset_loop(_, _, _, _)
\* for desc_set in &mut self.desc_sets { *desc_set = allocate_set(..).unwrap() }
reset_loop(k, i, calls, n) ==
    IF i > n THEN { [kernel |-> k, err |-> "Ok", calls |-> calls, panicked |-> FALSE] }
    ELSE UNION { IF o.err = "Ok"
                 THEN reset_loop([k EXCEPT !.desc_pool = o.pool, !.desc_sets[i] = o.set],
                                 i + 1, calls + 1, n)
                 ELSE { [kernel |-> [k EXCEPT !.desc_pool = o.pool],
                         err |-> o.err, calls |-> calls + 1, panicked |-> TRUE] }
                 : o \in allocate_set(k.desc_pool, k.set_layout) }

\* reset that forgets self.desc_pool.reset()
reset_no_pool_reset(k) ==
    reset_loop(k, 1, 0, Len(k.desc_sets))

\* reset that clears the vector before the loop, which then has nothing to refill
reset_clear(k) ==
    reset_loop([k EXCEPT !.desc_pool = pool_reset(k.desc_pool), !.desc_sets = <<>>], 1, 0, 0)

\* reset that pushes the new sets instead of overwriting the old ones
reset_push(k) ==
    { [o EXCEPT !.kernel.desc_sets = k.desc_sets \o @]
      : o \in reset_loop([k EXCEPT !.desc_pool = pool_reset(k.desc_pool)],
                         1, 0, Len(k.desc_sets)) }

\* reset that replaces the pool by a new one instead of resetting it
reset_recreate_pool(k) ==
    reset_loop([k EXCEPT !.desc_pool =
                   DescriptorPool_new(next_id, k.desc_pool.max_sets, k.desc_pool.ranges)],
               1, 0, Len(k.desc_sets))

\* reset that drops the allocation error and returns instead of unwrapping it
reset_ignore_err(k) ==
    { [o EXCEPT !.panicked = FALSE]
      : o \in reset_loop([k EXCEPT !.desc_pool = pool_reset(k.desc_pool)],
                         1, 0, Len(k.desc_sets)) }

\* reset that builds a new layout and allocates the sets against it
reset_new_layout(k) ==
    reset_loop([k EXCEPT !.desc_pool = pool_reset(k.desc_pool),
                         !.set_layout = DescriptorSetLayout_new(next_id, k.set_layout.bindings)],
               1, 0, Len(k.desc_sets))

\* every outcome of reset on kernel k: the kernel as the call leaves it, the
\* allocation result that ended it, and the allocation calls made
reset_effect(k) ==
    reset_loop([k EXCEPT !.desc_pool = pool_reset(k.desc_pool)], 1, 0, Len(k.desc_sets))

reset ==
    /\ status = "ready"
    /\ UNCHANGED next_id
    /\ \E o \in reset_effect(self) :
          /\ Called("reset", 0, <<>>, <<o.kernel>>,
                    IF o.panicked THEN "panicked" ELSE "ready", o.err, o.calls)
          /\ Logged("reset", <<o.kernel>>, IF o.panicked THEN "panicked" ELSE "ready")

\* ------------------------------------------------------------- accessors
max_desc_sets ==
    /\ status = "ready"
    /\ UNCHANGED <<next_id, trace>>
    /\ Called("max_desc_sets", 0, <<self.max_desc_sets>>, kernel, status, "None", 0)

pipeline ==
    /\ status = "ready"
    /\ UNCHANGED <<next_id, trace>>
    /\ Called("pipeline", 0, <<self.pipeline>>, kernel, status, "None", 0)

\* indexing that clamps an out-of-range index to the last element
IndexClamped(v, idx) ==
    IF Len(v) = 0 THEN <<>>
    ELSE IF idx < Len(v) THEN <<v[idx + 1]>> ELSE <<v[Len(v)]>>

\* &v[idx] on a Vec: <<element>>, or <<>> for the out-of-bounds panic
Index(v, idx) ==
    IF idx < Len(v) THEN <<v[idx + 1]>> ELSE <<>>

desc_set(idx) ==
    /\ status = "ready"
    /\ UNCHANGED <<next_id, trace>>
    /\ LET r == Index(self.desc_sets, idx)
       IN  Called("desc_set", idx, r, kernel,
                  IF r = <<>> THEN "panicked" ELSE status, "None", 0)

\* ----------------------------------------------------------- specification
Init ==
    /\ kernel = <<>>
    /\ status = "none"
    /\ next_id = 1
    /\ op = "init"
    /\ arg = 0
    /\ ret = <<>>
    /\ alloc_err = "None"
    /\ alloc_calls = 0
    /\ trace = <<>>

Next ==
    \/ calc_vertex_attrs_u16
    \/ calc_vertex_attrs_u16_skin
    \/ calc_vertex_attrs_u32
    \/ calc_vertex_attrs_u32_skin
    \/ decode_rgb_rgba
    \/ reset
    \/ max_desc_sets
    \/ pipeline
    \/ \E idx \in Indices : desc_set(idx)

Spec == Init /\ [][Next]_vars

\* ------------------------------------------------------------------ claims
Factories ==
    {"calc_vertex_attrs_u16", "calc_vertex_attrs_u16_skin", "calc_vertex_attrs_u32",
     "calc_vertex_attrs_u32_skin", "decode_rgb_rgba"}

VertexFactories == Factories \ {"decode_rgb_rgba"}

Stored(k) == {k.desc_sets[i] : i \in 1..Len(k.desc_sets)}

\* the last two calls that changed the kernel were resets that returned, and
\* the kernel has not panicked since
TwoResets ==
    /\ Len(trace) >= 3
    /\ status = "ready"
    /\ trace[Len(trace)].op = "reset" /\ trace[Len(trace)].status = "ready"
    /\ trace[Len(trace) - 1].op = "reset" /\ trace[Len(trace) - 1].status = "ready"

\* C1: whenever a kernel exists (after construction, after any number of
\* resets, returned or panicked), the stored descriptor-set sequence has
\* exactly max_desc_sets elements.
C1_LenIsMaxDescSets ==
    kernel # <<>> => Len(self.desc_sets) = self.max_desc_sets

C1_Witness ==
    /\ TwoResets
    /\ self.max_desc_sets = MaxDescSets
    /\ Len(self.desc_sets) = MaxDescSets

\* C2: for every factory and every max_desc_sets >= 1, each range capacity
\* handed to the pool is at least (bindings of that type in the layout) x
\* max_desc_sets, and the descriptors in use never exceed a range capacity.
C2_NoUnderProvisioning ==
    (kernel # <<>> /\ self.max_desc_sets >= 1) =>
        \A t \in DescriptorTypes :
            /\ RangeCapacity(self.desc_pool, t)
                  >= BindingCount(self.set_layout, t) * self.max_desc_sets
            /\ self.desc_pool.used[t] <= RangeCapacity(self.desc_pool, t)

\* C3: right after a successful construction with max_desc_sets >= 1,
\* desc_set(i) is defined for every i below max_desc_sets, the handles at
\* different indices differ, and each is a live set of the kernel's own pool.
C3_DefinedAndDistinct ==
    (op \in Factories /\ status = "ready" /\ self.max_desc_sets >= 1) =>
        \A i \in 0..(self.max_desc_sets - 1) :
            /\ Index(self.desc_sets, i) # <<>>
            /\ Index(self.desc_sets, i)[1] \in LiveSets(self.desc_pool)
            /\ \A j \in 0..(self.max_desc_sets - 1) :
                  i # j => Index(self.desc_sets, i) # Index(self.desc_sets, j)

C3_Witness ==
    /\ op \in Factories
    /\ status = "ready"
    /\ self.max_desc_sets = MaxDescSets
    /\ self.desc_sets[1] # self.desc_sets[MaxDescSets]

\* C4: a reset that returns has made exactly max_desc_sets allocations after
\* resetting the pool, and whenever the kernel is usable the stored handles
\* are exactly the pool's live sets: none stored is stale, none live is lost.
C4_StoredAreExactlyLive ==
    status = "ready" =>
        /\ Stored(self) = LiveSets(self.desc_pool)
        /\ Cardinality(LiveSets(self.desc_pool)) = self.max_desc_sets
        /\ op = "reset" => alloc_calls = self.max_desc_sets

C4_Witness ==
    /\ TwoResets
    /\ status = "ready"
    /\ alloc_calls = MaxDescSets
    /\ Stored(self) = LiveSets(self.desc_pool)
    /\ Cardinality(Stored(self)) = MaxDescSets

\* C5: a reset step, returning or panicking, leaves max_desc_sets, pipeline,
\* layout, shader, samplers and the pool's identity and configuration as they
\* were, and the index domain of desc_sets is the same after as before.
C5_ResetKeepsEverythingElse ==
    [][op' = "reset" =>
          /\ kernel # <<>> /\ kernel' # <<>>
          /\ kernel'[1].max_desc_sets = self.max_desc_sets
          /\ kernel'[1].pipeline = self.pipeline
          /\ kernel'[1].set_layout = self.set_layout
          /\ kernel'[1].shader = self.shader
          /\ kernel'[1].samplers = self.samplers
          /\ kernel'[1].desc_pool.id = self.desc_pool.id
          /\ kernel'[1].desc_pool.max_sets = self.desc_pool.max_sets
          /\ kernel'[1].desc_pool.ranges = self.desc_pool.ranges
          /\ DOMAIN kernel'[1].desc_sets = DOMAIN self.desc_sets
          /\ DOMAIN self.desc_sets = 1..self.max_desc_sets]_vars

C5_Witness ==
    /\ op = "reset"
    /\ status = "ready"
    /\ self.max_desc_sets >= 1
    /\ DOMAIN self.desc_sets = 1..self.max_desc_sets
    /\ self.pipeline.set_layouts = <<self.set_layout.id>>

\* C6: an allocation error during construction or during reset's
\* reallocation ends the call in a panic: construction leaves no kernel, reset
\* does not return, and no allocation is attempted after the failed one; a
\* reset that does return holds no handle the pool reset invalidated.
C6_AllocationFailureIsFatal ==
    /\ alloc_err \notin {"Ok", "None"} =>
          /\ status = "panicked"
          /\ ret = <<>>
          /\ op \in Factories => kernel = <<>>
          /\ op = "reset" =>
                alloc_calls = Cardinality(LiveSets(self.desc_pool)) + 1
    /\ op \in Factories => alloc_calls = 1
    /\ (op = "reset" /\ status = "ready") =>
          /\ alloc_err = "Ok"
          /\ Stored(self) \subseteq LiveSets(self.desc_pool)

C6_Witness ==
    /\ op = "reset"
    /\ status = "panicked"
    /\ alloc_err = "OutOfMemory"
    /\ alloc_calls = 2
    /\ Cardinality(LiveSets(self.desc_pool)) = 1

\* C7: desc_set(idx) never changes the kernel; with idx < max_desc_sets it
\* returns the handle stored at idx, and with idx >= max_desc_sets (any idx
\* when max_desc_sets is 0) it panics and returns nothing.
C7_DescSetBoundsChecked ==
    [][op' = "desc_set" =>
          /\ kernel' = kernel
          /\ IF arg' < self.max_desc_sets
             THEN ret' = <<self.desc_sets[arg' + 1]>> /\ status' = "ready"
             ELSE ret' = <<>> /\ status' = "panicked"]_vars

C7_Witness ==
    /\ op = "desc_set"
    /\ status = "panicked"
    /\ self.max_desc_sets >= 1
    /\ arg = self.max_desc_sets
    /\ ret = <<>>

\* C8: in every state with a usable kernel, each stored set is recorded by
\* the pool as allocated against the kernel's layout, which is the layout the
\* pipeline was created with; no step replaces the layout or the pipeline.
C8_OneLayout ==
    /\ [](status = "ready" =>
            /\ \A i \in 1..Len(self.desc_sets) :
                  self.desc_pool.live[self.desc_sets[i]] = self.set_layout.id
            /\ self.pipeline.set_layouts = <<self.set_layout.id>>)
    /\ [][(kernel # <<>> /\ kernel' # <<>>) =>
            /\ kernel'[1].set_layout = self.set_layout
            /\ kernel'[1].pipeline = self.pipeline]_vars

C8_Witness ==
    /\ TwoResets
    /\ status = "ready"
    /\ self.max_desc_sets >= 1
    /\ \A i \in 1..Len(self.desc_sets) :
          self.desc_pool.live[self.desc_sets[i]] = self.set_layout.id

\* C9: after two successive resets the observable shape (max_desc_sets(),
\* number of stored sets) equals the shape after the first of them and the
\* shape before it.
C9_ResetIdempotentOnShape ==
    TwoResets =>
        /\ trace[Len(trace)].shape = trace[Len(trace) - 1].shape
        /\ trace[Len(trace) - 1].shape = trace[Len(trace) - 2].shape
        /\ trace[Len(trace)].shape = ShapeOf(kernel)

C9_Witness ==
    /\ TwoResets
    /\ trace[Len(trace) - 2].op \in Factories
    /\ trace[Len(trace)].shape = <<MaxDescSets, MaxDescSets>>

VertexBinary ==
    [f \in VertexFactories |->
        CASE f = "calc_vertex_attrs_u16" -> CALC_VERTEX_ATTRS_U16_COMP
          [] f = "calc_vertex_attrs_u16_skin" -> CALC_VERTEX_ATTRS_U16_SKIN_COMP
          [] f = "calc_vertex_attrs_u32" -> CALC_VERTEX_ATTRS_U32_COMP
          [] f = "calc_vertex_attrs_u32_skin" -> CALC_VERTEX_ATTRS_U32_SKIN_COMP]

\* C10: a kernel built by any of the four vertex-attribute factories has
\* bindings 0..3 = RO, RO, RW, RO structured storage buffers at the compute
\* stage, one compute push-constant range 0..8, and range capacities
\* 3 x max_desc_sets RO and max_desc_sets RW; each factory binds its own
\* shader binary, and the four binaries differ.
C10_VertexFactoriesSameShape ==
    /\ \A f, g \in VertexFactories : f # g => VertexBinary[f] # VertexBinary[g]
    /\ (op \in VertexFactories /\ status = "ready") =>
          self.shader.spirv = VertexBinary[op]
    /\ (kernel # <<>> /\ self.shader.spirv \in {VertexBinary[f] : f \in VertexFactories}) =>
          /\ Len(self.set_layout.bindings) = 4
          /\ \A b \in 1..4 :
                /\ self.set_layout.bindings[b].binding = b - 1
                /\ self.set_layout.bindings[b].stage_flags = "COMPUTE"
                /\ self.set_layout.bindings[b].count = 1
                /\ self.set_layout.bindings[b].ty =
                      <<"Buffer", <<"Structured", FALSE>>, <<"Storage", b # 3>> >>
          /\ self.pipeline.push_consts = << <<"COMPUTE", 0, 8>> >>
          /\ Len(self.desc_pool.ranges) = 2
          /\ self.desc_pool.ranges[1] =
                [ty |-> <<"Buffer", <<"Structured", FALSE>>, <<"Storage", TRUE>> >>,
                 count |-> 3 * self.max_desc_sets]
          /\ self.desc_pool.ranges[2] =
                [ty |-> <<"Buffer", <<"Structured", FALSE>>, <<"Storage", FALSE>> >>,
                 count |-> self.max_desc_sets]

C10_Witness ==
    /\ op = "calc_vertex_attrs_u32_skin"
    /\ status = "ready"
    /\ self.shader.spirv = CALC_VERTEX_ATTRS_U32_SKIN_COMP
    /\ self.max_desc_sets = MaxDescSets
    /\ Len(self.set_layout.bindings) = 4

====
